---- MODULE Spec2Model ----
(***************************************************************************)
(* askgpt: a command-line assistant.  One invocation of main() resolves    *)
(* model/temperature from flags, config file and defaults, and in AI mode  *)
(* stitches the invocation into a persisted session.                       *)
(*                                                                         *)
(* Persistent state: the config file askgpt.toml and the session files     *)
(* sessions/<id>.json.  An invocation is a process that reads and writes   *)
(* them; each file read and each file write is one atomic step.            *)
(*                                                                         *)
(* Conventions: an optional value (Python None / a missing key) is a set   *)
(* with at most one element; temperatures are in tenths (7 is 0.7);        *)
(* session ids are the ordinal of the uuid4() call that produced them      *)
(* (uuid4 never repeats a value).                                          *)
(*                                                                         *)
(* src/ask.py, the legacy script, keeps one history file ~/.ask_ai that    *)
(* expires by age; it has its own variables and its own specification.     *)
(***************************************************************************)
EXTENDS Integers, Sequences, FiniteSets, TLC

\* ------------------------------------------------------------- bounds
MaxInvocations == 2

MaxChunks == 3
\* how many times the legacy script is run
MaxAskRuns == 2

\* ---------------------------------------------------------- constants
default_system_prompt == "single-command prompt"
markdown_system_prompt == "markdown prompt"
DefaultModel == "gpt-4o-mini"
DefaultTemperature == 7

\* ------------------------------------------------------------- inputs
Procs == {"A", "B"}
Prompts == {"p1", "p2"}
PromptArgs == {{}} \cup {{p} : p \in Prompts}
SystemPromptArgs == {"", "custom"}
ModelArgs == {{}, {"gpt-4"}}
\* tenths: 0.0, 0.5, and 2.5, which argparse's type=float accepts as well
TemperatureArgs == {{}, {0}, {5}, {25}}
ApiKeys == {{}, {""}, {"sk-test"}}
Replies == {"r1", "r2"}
\* streams of chunk payloads (delta.content: a string or None)
Streams == {<<>>, <<{"Hello"}, {" World"}, {}>>, <<{}, {"r2"}>>}
\* every stream of at most MaxChunks payloads: None, the empty string, text
Payloads == {{}, {""}, {"Hello"}, {" World"}}
AllStreams == UNION {[1..n -> Payloads] : n \in 0..MaxChunks}
ConfigModels == {{}, {"gpt-4o"}}
ConfigTemperatures == {{}, {9}}

\* ------------------------------------------------------ option values
None == {}
Some(v) == {v}
TheValue(opt) == CHOOSE v \in opt : TRUE
\* dict.get(key, default)
Get(opt, default) == IF opt = None THEN default ELSE TheValue(opt)

\* --------------------------------------------------------- config file
\* A settings mapping: each recognised key is present (Some) or missing.
EmptyCfg == [model |-> None, temperature |-> None, current_session |-> None]

\* The file: absent, or a document that is valid TOML holding a mapping, or
\* a document with invalid syntax.
NoConfigFile == [exists |-> FALSE, syntax |-> "none", value |-> EmptyCfg]
CorruptConfigFile == [exists |-> TRUE, syntax |-> "invalid", value |-> EmptyCfg]
toml_dump(config) == [exists |-> TRUE, syntax |-> "valid", value |-> config]
toml_load(file) ==
    IF file.syntax = "valid"
    THEN [raised |-> FALSE, value |-> file.value]
    ELSE [raised |-> TRUE, value |-> EmptyCfg]

\* mutant of load_config: toml.load outside the try
load_config_unguarded(file) ==
    IF file.exists THEN toml_load(file) ELSE [raised |-> FALSE, value |-> EmptyCfg]

\* load_config(): {} when the file is missing or toml.load raises.
load_config(file) ==
    IF file.exists
    THEN LET r == toml_load(file)
         IN  IF r.raised THEN [raised |-> FALSE, value |-> EmptyCfg] ELSE r
    ELSE [raised |-> FALSE, value |-> EmptyCfg]

\* save_config(config): overwrite the file.
save_config(config) == toml_dump(config)

\* mutant of get_current_session_id: the key is never found
get_current_session_id_unset(file) == None

\* get_current_session_id(): config.get("current_session")
get_current_session_id(file) == load_config(file).value.current_session

\* ------------------------------------------------------- session files
Turn(role, content) == [role |-> role, content |-> content]

\* What load_session can hand back: None, a session dict, or another JSON
\* value ("empty_object" is {}, "object_no_messages" is a non-empty object
\* without a messages key).
NoneData == [kind |-> "None", id |-> 0, created_at |-> 0, messages |-> <<>>]
SessionDict(id, created_at, messages) ==
    [kind |-> "session", id |-> id, created_at |-> created_at, messages |-> messages]
EmptyObject == [kind |-> "empty_object", id |-> 0, created_at |-> 0, messages |-> <<>>]
ObjectNoMessages(id) ==
    [kind |-> "object_no_messages", id |-> id, created_at |-> 0, messages |-> <<>>]

\* mutants of Truthy: the check "if not session_data" inverted, and left out
Truthy_negated(data) == data.kind \notin {"session", "object_no_messages"}
Truthy_unchecked(data) == TRUE

\* Python truthiness of a loaded value: None and {} are falsy.
Truthy(data) == data.kind \in {"session", "object_no_messages"}
\* data["messages"] is defined
HasMessages(data) == data.kind = "session"

\* mutant of json_dump: the last element of messages is not written
json_dump_truncating(data) ==
    [syntax |-> "valid",
     value |-> [data EXCEPT !.messages = SubSeq(@, 1, Len(@) - 1)]]

json_dump(data) == [syntax |-> "valid", value |-> data]
InvalidJson == [syntax |-> "invalid", value |-> NoneData]
json_load(doc) ==
    IF doc.syntax = "valid"
    THEN [raised |-> FALSE, value |-> doc.value]
    ELSE [raised |-> TRUE, value |-> NoneData]

\* mutant of Put: the write leaves no other file in the directory
Put_alone(files, id, doc) == [i \in {id} |-> doc]

\* The directory after writing doc to <id>.json
Put(files, id, doc) ==
    [i \in DOMAIN files \cup {id} |-> IF i = id THEN doc ELSE files[i]]

\* mutant of uuid4: an identifier that is not fresh
uuid4_repeats(generated) == 1

\* uuid.uuid4(): a value never produced before
uuid4(generated) == generated + 1

\* mutant of new_session_data: the record is seeded with a system turn
new_session_data_seeded(session_id, now) ==
    SessionDict(session_id, now, <<Turn("system", "markdown prompt")>>)

\* create_new_session(): the session record written for a fresh id
new_session_data(session_id, now) == SessionDict(session_id, now, <<>>)

\* load_session(id): None when the file is missing or json.load raises
load_session(files, session_id) ==
    IF session_id \in DOMAIN files
    THEN LET r == json_load(files[session_id])
         IN  IF r.raised THEN NoneData ELSE r.value
    ELSE NoneData

\* mutant of save_session: the turn is appended to what the file holds now
save_session_appending(files, session_data) ==
    LET stored == load_session(files, session_data.id).messages
        n == Len(session_data.messages)
    IN  IF stored = <<>>
        THEN Put(files, session_data.id, json_dump(session_data))
        ELSE Put(files, session_data.id,
                 json_dump([session_data EXCEPT
                     !.messages = stored \o SubSeq(session_data.messages, n - 1, n)]))

\* save_session(data): overwrite <data["id"]>.json
save_session(files, session_data) ==
    Put(files, session_data.id, json_dump(session_data))

\* --------------------------------------------------- main(): pure parts
\* mutant of resolve_temperature: "if args.temperature" instead of "is not None"
resolve_temperature_by_truthiness(flag, config) ==
    IF flag # None /\ TheValue(flag) # 0
    THEN TheValue(flag)
    ELSE IF config.temperature = None THEN 7 ELSE TheValue(config.temperature)

\* lines 221-222: flag, else config value, else default
resolve_model(flag, config) ==
    IF flag # None THEN TheValue(flag) ELSE Get(config.model, DefaultModel)
resolve_temperature(flag, config) ==
    IF flag # None THEN TheValue(flag) ELSE Get(config.temperature, DefaultTemperature)

\* mutants of select_system_prompt: the mode is not looked at, and the
\* markdown prompt is only a default
select_system_prompt_ignores_ai(ai, system_prompt_arg) == system_prompt_arg
select_system_prompt_prefers_flag(ai, system_prompt_arg) ==
    IF ai /\ system_prompt_arg = "" THEN markdown_system_prompt ELSE system_prompt_arg

\* line 215
select_system_prompt(ai, system_prompt_arg) ==
    IF ai THEN markdown_system_prompt ELSE system_prompt_arg

\* mutant of build_msg_history: the system turn is added on every turn
build_msg_history_always_system(session_data, system_prompt, prompt) ==
    <<Turn("system", system_prompt)>> \o session_data.messages \o <<Turn("user", prompt)>>

\* mutant of build_msg_history: the system turn is never added
build_msg_history_without_system(session_data, system_prompt, prompt) ==
    session_data.messages \o <<Turn("user", prompt)>>

\* lines 247-258: the list sent in AI mode
build_msg_history(session_data, system_prompt, prompt) ==
    (IF session_data.messages = <<>>
     THEN <<Turn("system", system_prompt)>>
     ELSE session_data.messages)
    \o <<Turn("user", prompt)>>

\* mutant of update_messages: a later turn stores the system turn again
update_messages_repeats_system(session_data, msg_history, prompt, ai_response) ==
    IF session_data.messages = <<>>
    THEN msg_history
    ELSE session_data.messages
         \o <<msg_history[1], Turn("user", prompt), Turn("assistant", ai_response)>>

\* mutants of update_messages: the whole list sent is appended to the stored
\* one, and the user turn is left out on a later turn
update_messages_appends_history(session_data, msg_history, prompt, ai_response) ==
    session_data.messages \o msg_history
update_messages_drops_user(session_data, msg_history, prompt, ai_response) ==
    IF session_data.messages = <<>>
    THEN msg_history
    ELSE session_data.messages \o <<Turn("assistant", ai_response)>>

\* lines 263-275: the messages stored after the reply; msg_history already
\* ends with the assistant turn (line 264)
update_messages(session_data, msg_history, prompt, ai_response) ==
    IF session_data.messages = <<>>
    THEN msg_history
    ELSE session_data.messages
         \o <<Turn("user", prompt), Turn("assistant", ai_response)>>

\* query_chatgpt lines 115-118: the list sent in default mode
single_shot_history(system_prompt, prompt) ==
    <<Turn("system", IF system_prompt = "" THEN default_system_prompt ELSE system_prompt),
      Turn("user", prompt)>>

\* mutant of accumulate: "markdown_content = new_content"
RECURSIVE accumulate_keeps_last(_, _)
accumulate_keeps_last(markdown_content, chunks) ==
    IF chunks = <<>>
    THEN markdown_content
    ELSE accumulate_keeps_last(IF Head(chunks) # None
                               THEN TheValue(Head(chunks))
                               ELSE markdown_content,
                               Tail(chunks))

\* query_chatgpt_streaming lines 146-157: accumulate the string payloads
RECURSIVE accumulate(_, _)
accumulate(markdown_content, chunks) ==
    IF chunks = <<>>
    THEN markdown_content
    ELSE accumulate(IF Head(chunks) # None
                    THEN markdown_content \o TheValue(Head(chunks))
                    ELSE markdown_content,
                    Tail(chunks))

\* mutant of key_missing: "if api_key is None"
key_missing_none_only(api_key) == api_key = None

\* validate_openai_api_key: "if not api_key"
key_missing(api_key) == api_key = None \/ api_key = Some("")

\* ------------------------------------------------ src/ask.py (legacy)
MAX_HISTORY_AGE == 120
\* system_prompts[1], the prompt of the -q mode
legacy_system_prompt == Turn("system", "legacy markdown prompt")

\* ~/.ask_ai: absent, or a JSON list of turns with a modification time
NoHistoryFile == [exists |-> FALSE, mtime |-> 0, content |-> <<>>]
HistoryFile(mtime, content) == [exists |-> TRUE, mtime |-> mtime, content |-> content]

\* mutant of read_history: "<=" instead of "<"
read_history_inclusive(file, time, newrequest, systemprompt) ==
    LET fresh == file.exists /\ time - file.mtime <= MAX_HISTORY_AGE
        history == IF fresh THEN file.content ELSE <<>>
    IN  [file |-> IF file.exists /\ ~fresh THEN NoHistoryFile ELSE file,
         history |-> IF Len(history) = 0
                     THEN <<systemprompt, Turn("user", newrequest)>>
                     ELSE Append(history, Turn("user", newrequest))]

\* read_history, lines 37-52: the list to send, and the file it leaves
read_history(file, time, newrequest, systemprompt) ==
    LET fresh == file.exists /\ time - file.mtime < MAX_HISTORY_AGE
        history == IF fresh THEN file.content ELSE <<>>
    IN  [file |-> IF file.exists /\ ~fresh THEN NoHistoryFile ELSE file,
         history |-> IF Len(history) = 0
                     THEN <<systemprompt, Turn("user", newrequest)>>
                     ELSE Append(history, Turn("user", newrequest))]

\* save_history, lines 31-35: the file written at the given time
save_history(messages, ai_reponse, time) ==
    HistoryFile(time, Append(messages, Turn("assistant", ai_reponse)))

\* ---------------------------------------------------------------- state
VARIABLES
    configFile,    \* askgpt.toml
    sessionFiles,  \* sessions/<id>.json, a function from the ids that have a file
    generated,     \* how many uuids uuid4() has produced
    clock,         \* datetime.now(); ticks once per invocation started
    inv            \* per process: the position and the locals of main()

\* src/ask.py, the legacy script
VARIABLES
    historyFile,   \* ~/.ask_ai
    now,           \* time.time(), in seconds
    ask            \* the position and the locals of markdown_chatgpt()

legacy_vars == <<historyFile, now, ask>>
main_vars == <<configFile, sessionFiles, generated, clock, inv>>

vars == <<configFile, sessionFiles, generated, clock, inv, historyFile, now, ask>>

NoArgs == [prompt |-> None, system_prompt |-> "", model |-> None,
           temperature |-> None, ai |-> FALSE, new_session |-> FALSE]

Args == [prompt : PromptArgs, system_prompt : SystemPromptArgs, model : ModelArgs,
         temperature : TemperatureArgs, ai : BOOLEAN, new_session : BOOLEAN]

Idle == [pc |-> "idle", args |-> NoArgs, api_key |-> None,
         config |-> EmptyCfg, set_config |-> EmptyCfg,
         model |-> "", temperature |-> 0, system_prompt |-> "",
         session_id |-> None, session_data |-> NoneData, healed |-> FALSE,
         msg_history |-> <<>>, requests |-> <<>>, chunks |-> <<>>,
         ai_response |-> None,
         printed |-> None, outcome |-> "none", exit_code |-> None,
         pre_config |-> NoConfigFile, pre_sessions |-> <<>>]

\* The config files a user can have before the first invocation: none, one
\* with invalid syntax, or one setting any of model and temperature.
InitConfigFiles ==
    {NoConfigFile, CorruptConfigFile}
    \cup {toml_dump([model |-> m, temperature |-> t, current_session |-> None]) :
            m \in ConfigModels, t \in ConfigTemperatures}

AskIdle == [pc |-> "idle", prompt |-> "", msg_history |-> <<>>, response |-> "",
            runs |-> 0, pre_file |-> NoHistoryFile, read_at |-> 0]

LegacyInit ==
    /\ historyFile = NoHistoryFile
    /\ now = 0
    /\ ask = AskIdle

Init ==
    /\ configFile \in InitConfigFiles
    /\ sessionFiles = <<>>
    /\ generated = 0
    /\ clock = 0
    /\ inv = [p \in Procs |-> Idle]
    /\ LegacyInit

Set(p, r) == inv' = [inv EXCEPT ![p] = r]
Exit(r, outcome, code) == [r EXCEPT !.pc = "done", !.outcome = outcome, !.exit_code = Some(code)]

\* ------------------------------------------------------ main(): steps
\* mutant of mode_entry: --new-session handled whatever the mode
mode_entry_new_session_alone(args) ==
    IF args.ai \/ args.new_session THEN "resolve" ELSE "dispatch"

\* line 225: session handling in AI mode only
mode_entry(args) == IF args.ai THEN "resolve" ELSE "dispatch"

\* mutant of Begin: the config is loaded before the prompt is checked
Begin_loads_config_first(p, args, api_key) ==
    /\ inv[p].pc = "idle"
    /\ clock < MaxInvocations
    /\ clock' = clock + 1
    /\ LET loaded == load_config(configFile)
           r0 == [inv[p] EXCEPT !.args = args, !.api_key = api_key,
                                !.pre_config = configFile, !.pre_sessions = sessionFiles,
                                !.config = loaded.value,
                                !.model = resolve_model(args.model, loaded.value),
                                !.temperature = resolve_temperature(args.temperature,
                                                                    loaded.value)]
       IN  IF args.prompt = None
           THEN Set(p, Exit(r0, "usage", 1))
           ELSE Set(p, [r0 EXCEPT
                    !.system_prompt = select_system_prompt(args.ai, args.system_prompt),
                    !.pc = mode_entry(args)])
    /\ UNCHANGED <<configFile, sessionFiles, generated, legacy_vars>>

\* lines 207-222: parse the arguments, check the prompt, load the config and
\* resolve model and temperature.
Begin(p, args, api_key) ==
    /\ inv[p].pc = "idle"
    /\ clock < MaxInvocations
    /\ clock' = clock + 1
    /\ LET r0 == [inv[p] EXCEPT !.args = args, !.api_key = api_key,
                                !.pre_config = configFile, !.pre_sessions = sessionFiles]
           loaded == load_config(configFile)
       IN  IF args.prompt = None
           THEN Set(p, Exit(r0, "usage", 1))
           ELSE IF loaded.raised
           THEN Set(p, Exit(r0, "exception", 1))
           ELSE Set(p, [r0 EXCEPT
                    !.system_prompt = select_system_prompt(args.ai, args.system_prompt),
                    !.config = loaded.value,
                    !.model = resolve_model(args.model, loaded.value),
                    !.temperature = resolve_temperature(args.temperature, loaded.value),
                    !.pc = mode_entry(args)])
    /\ UNCHANGED <<configFile, sessionFiles, generated, legacy_vars>>

\* mutant of create_new_session: the id is returned, the file is not written
create_new_session_unwritten(p, next_pc) ==
    /\ generated' = generated + 1
    /\ Set(p, [inv[p] EXCEPT !.session_id = Some(uuid4(generated)), !.pc = next_pc])
    /\ UNCHANGED <<configFile, sessionFiles, clock, legacy_vars>>

\* create_new_session(), lines 67-81
create_new_session(p, next_pc) ==
    LET session_id == uuid4(generated)
    IN  /\ generated' = generated + 1
        /\ sessionFiles' = Put(sessionFiles, session_id,
                               json_dump(new_session_data(session_id, clock)))
        /\ Set(p, [inv[p] EXCEPT !.session_id = Some(session_id), !.pc = next_pc])
        /\ UNCHANGED <<configFile, clock, legacy_vars>>

\* lines 227-237: --new-session creates; otherwise read current_session and
\* create only when there is none.
ResolveSession(p) ==
    /\ inv[p].pc = "resolve"
    /\ IF inv[p].args.new_session
       THEN create_new_session(p, "set_current")
       ELSE LET session_id == get_current_session_id(configFile)
            IN  /\ Set(p, [inv[p] EXCEPT !.session_id = session_id,
                               !.pc = IF session_id = None THEN "create" ELSE "load"])
                /\ UNCHANGED <<configFile, sessionFiles, generated, clock, legacy_vars>>

\* line 236 and line 243
CreateSession(p) ==
    /\ inv[p].pc = "create"
    /\ create_new_session(p, "set_current")

\* mutant of SetCurrentRead: "config = {}" instead of load_config()
SetCurrentRead_fresh(p) ==
    /\ inv[p].pc = "set_current"
    /\ Set(p, [inv[p] EXCEPT !.set_config = EmptyCfg, !.pc = "set_current_save"])
    /\ UNCHANGED <<configFile, sessionFiles, generated, clock, legacy_vars>>

\* set_current_session_id, lines 108: config = load_config()
SetCurrentRead(p) ==
    /\ inv[p].pc = "set_current"
    /\ LET loaded == load_config(configFile)
       IN  IF loaded.raised
           THEN Set(p, Exit(inv[p], "exception", 1))
           ELSE Set(p, [inv[p] EXCEPT !.set_config = loaded.value, !.pc = "set_current_save"])
    /\ UNCHANGED <<configFile, sessionFiles, generated, clock, legacy_vars>>

\* mutant of SetCurrentSave: the config file is not written
SetCurrentSave_skipped(p) ==
    /\ inv[p].pc = "set_current_save"
    /\ Set(p, [inv[p] EXCEPT !.pc = "load"])
    /\ UNCHANGED <<configFile, sessionFiles, generated, clock, legacy_vars>>

\* set_current_session_id, lines 109-110
SetCurrentSave(p) ==
    /\ inv[p].pc = "set_current_save"
    /\ configFile' = save_config([inv[p].set_config EXCEPT
                                     !.current_session = inv[p].session_id])
    /\ Set(p, [inv[p] EXCEPT !.pc = "load"])
    /\ UNCHANGED <<sessionFiles, generated, clock, legacy_vars>>

\* lines 240-245: load the session; a falsy result is replaced once by a new
\* session, whose load (line 245) is not checked again.
LoadSession(p) ==
    /\ inv[p].pc = "load"
    /\ LET session_data == load_session(sessionFiles, TheValue(inv[p].session_id))
       IN  IF ~inv[p].healed /\ ~Truthy(session_data)
           THEN Set(p, [inv[p] EXCEPT !.healed = TRUE, !.pc = "create"])
           ELSE Set(p, [inv[p] EXCEPT !.session_data = session_data, !.pc = "dispatch"])
    /\ UNCHANGED <<configFile, sessionFiles, generated, clock, legacy_vars>>

\* lines 247-261 (AI mode) and query_chatgpt lines 113-127 (default mode):
\* assemble the list, check the credential, send the request.
Request(messages, model, temperature, stream, api_key) ==
    [messages |-> messages, model |-> model, temperature |-> temperature,
     stream |-> stream, api_key |-> api_key]

Dispatch(p) ==
    /\ inv[p].pc = "dispatch"
    /\ LET r == inv[p]
           prompt == TheValue(r.args.prompt)
       IN  IF r.args.ai
           THEN IF ~HasMessages(r.session_data)
                THEN Set(p, Exit(r, "exception", 1))
                ELSE LET msg_history == build_msg_history(r.session_data, r.system_prompt, prompt)
                     IN  IF key_missing(r.api_key)
                         THEN Set(p, Exit([r EXCEPT !.msg_history = msg_history],
                                          "no_credential", 1))
                         ELSE Set(p, [r EXCEPT
                                  !.msg_history = msg_history,
                                  !.requests = Append(@, Request(msg_history, r.model,
                                                  r.temperature, TRUE, TheValue(r.api_key))),
                                  !.pc = "await"])
           ELSE IF key_missing(r.api_key)
                THEN Set(p, Exit(r, "no_credential", 1))
                ELSE LET msg_history == single_shot_history(r.system_prompt, prompt)
                     IN  Set(p, [r EXCEPT
                                  !.msg_history = msg_history,
                                  !.requests = Append(@, Request(msg_history, r.model,
                                                  r.temperature, FALSE, TheValue(r.api_key))),
                                  !.pc = "await"])
    /\ UNCHANGED <<configFile, sessionFiles, generated, clock, legacy_vars>>

\* mutant of ApiFails: the list sent was saved before the call
ApiFails_after_save(p) ==
    /\ inv[p].pc = "await"
    /\ sessionFiles' =
         IF inv[p].args.ai
         THEN save_session(sessionFiles,
                           [inv[p].session_data EXCEPT !.messages = inv[p].msg_history])
         ELSE sessionFiles
    /\ Set(p, Exit(inv[p], "exception", 1))
    /\ UNCHANGED <<configFile, generated, clock, legacy_vars>>

\* The API call raises: nothing in main catches it.
ApiFails(p) ==
    /\ inv[p].pc = "await"
    /\ Set(p, Exit(inv[p], "exception", 1))
    /\ UNCHANGED <<configFile, sessionFiles, generated, clock, legacy_vars>>

\* The reply arrives.  AI mode, lines 261-275: the accumulated stream is
\* appended and the session record updated.  Default mode, lines 280-281:
\* the reply is printed.
ReceiveFrom(p, streams) ==
    /\ inv[p].pc = "await"
    /\ LET r == inv[p]
           prompt == TheValue(r.args.prompt)
       IN  IF r.args.ai
           THEN \E chunks \in streams :
                  LET ai_response == accumulate("", chunks)
                      msg_history == Append(r.msg_history, Turn("assistant", ai_response))
                  IN  Set(p, [r EXCEPT
                          !.chunks = chunks,
                          !.ai_response = Some(ai_response),
                          !.msg_history = msg_history,
                          !.session_data.messages =
                              update_messages(r.session_data, msg_history, prompt, ai_response),
                          !.pc = "save"])
           ELSE \E response \in Replies :
                  Set(p, Exit([r EXCEPT !.printed = Some(response)], "ok", 0))
    /\ UNCHANGED <<configFile, sessionFiles, generated, clock, legacy_vars>>

Receive(p) == ReceiveFrom(p, Streams)

\* line 278
SaveSession(p) ==
    /\ inv[p].pc = "save"
    /\ sessionFiles' = save_session(sessionFiles, inv[p].session_data)
    /\ Set(p, Exit(inv[p], "ok", 0))
    /\ UNCHANGED <<configFile, generated, clock, legacy_vars>>

\* The process has ended; its locals are gone.
Finish(p) ==
    /\ inv[p].pc = "done"
    /\ Set(p, Idle)
    /\ UNCHANGED <<configFile, sessionFiles, generated, clock, legacy_vars>>

\* ------------------------------------------------- outside the program
\* Between invocations something else damages or removes a session file.
AllIdle == \A q \in Procs : inv[q].pc = "idle"

DamagedDocs(id) == {InvalidJson, json_dump(EmptyObject), json_dump(ObjectNoMessages(id))}

DamageSession ==
    /\ AllIdle
    /\ \E id \in DOMAIN sessionFiles : \E doc \in DamagedDocs(id) :
         sessionFiles' = Put(sessionFiles, id, doc)
    /\ UNCHANGED <<configFile, generated, clock, inv, legacy_vars>>

DeleteSession ==
    /\ AllIdle
    /\ \E id \in DOMAIN sessionFiles :
         sessionFiles' = [i \in DOMAIN sessionFiles \ {id} |-> sessionFiles[i]]
    /\ UNCHANGED <<configFile, generated, clock, inv, legacy_vars>>

\* ------------------------------------------------------ specifications
\* One invocation at a time (the single-user, single-process assumption).
Start ==
    /\ AllIdle
    /\ \E args \in Args, api_key \in ApiKeys : Begin("A", args, api_key)

Steps ==
    \E p \in Procs :
      \/ ResolveSession(p) \/ CreateSession(p)
      \/ SetCurrentRead(p) \/ SetCurrentSave(p)
      \/ LoadSession(p)
      \/ Dispatch(p) \/ ApiFails(p) \/ Receive(p)
      \/ SaveSession(p)
      \/ Finish(p)

Next == Start \/ Steps

Spec == Init /\ [][Next]_vars

\* The same, with session files damaged or deleted between invocations.
NextEnv == Next \/ DamageSession \/ DeleteSession

SpecEnv == Init /\ [][NextEnv]_vars

\* The streaming dispatcher alone: an AI-mode invocation on a new session
\* that has sent its request (a state Spec reaches), fed any stream of
\* AllStreams.
Streaming ==
    [Idle EXCEPT
       !.pc = "await",
       !.args = [NoArgs EXCEPT !.prompt = Some("p1"), !.ai = TRUE],
       !.api_key = Some("sk-test"),
       !.model = DefaultModel,
       !.temperature = DefaultTemperature,
       !.system_prompt = markdown_system_prompt,
       !.session_id = Some(1),
       !.session_data = new_session_data(1, 1),
       !.msg_history = build_msg_history(new_session_data(1, 1),
                                         markdown_system_prompt, "p1"),
       !.requests = <<Request(build_msg_history(new_session_data(1, 1),
                                                markdown_system_prompt, "p1"),
                              DefaultModel, DefaultTemperature, TRUE, "sk-test")>>]

InitStream ==
    /\ configFile = save_config([EmptyCfg EXCEPT !.current_session = Some(1)])
    /\ sessionFiles = Put(<<>>, 1, json_dump(new_session_data(1, 1)))
    /\ generated = 1
    /\ clock = 1
    /\ inv = [p \in Procs |-> IF p = "A" THEN Streaming ELSE Idle]
    /\ LegacyInit

NextStream ==
    \E p \in Procs :
      \/ ReceiveFrom(p, AllStreams)
      \/ SaveSession(p)
      \/ Finish(p)

SpecStream == InitStream /\ [][NextStream]_vars

\* Two invocations of the same user at once, each in AI mode with its own
\* prompt; their file operations interleave.  The user has no config file
\* yet.
PromptOf(p) == IF p = "A" THEN "p1" ELSE "p2"

ConcArgs(p) ==
    {[NoArgs EXCEPT !.prompt = Some(PromptOf(p)), !.ai = TRUE, !.new_session = n] :
        n \in BOOLEAN}

StartConc ==
    \E p \in Procs : \E args \in ConcArgs(p) : Begin(p, args, Some("sk-test"))

InitConc ==
    /\ configFile = NoConfigFile
    /\ sessionFiles = <<>>
    /\ generated = 0
    /\ clock = 0
    /\ inv = [p \in Procs |-> Idle]
    /\ LegacyInit

NextConc == StartConc \/ Steps

SpecConc == InitConc /\ [][NextConc]_vars

\* The legacy script run with -q, one run at a time, while time passes.
\* The moments at which something can happen, in seconds.
Times == {0, 1, 119, 120, 121, 240}

\* markdown_chatgpt line 63: msg_history = read_history(prompt, system_prompt)
AskRead ==
    /\ ask.pc = "idle"
    /\ ask.runs < MaxAskRuns
    /\ \E prompt \in Prompts :
         LET r == read_history(historyFile, now, prompt, legacy_system_prompt)
         IN  /\ historyFile' = r.file
             /\ ask' = [ask EXCEPT !.pc = "await", !.prompt = prompt,
                                   !.msg_history = r.history, !.response = "",
                                   !.runs = @ + 1,
                                   !.pre_file = historyFile, !.read_at = now]
    /\ UNCHANGED <<now, main_vars>>

\* lines 66-68: the API call returns
AskReply ==
    /\ ask.pc = "await"
    /\ \E response \in Replies : ask' = [ask EXCEPT !.pc = "save", !.response = response]
    /\ UNCHANGED <<historyFile, now, main_vars>>

\* lines 66-68: the API call raises; the script ends
AskFails ==
    /\ ask.pc = "await"
    /\ ask' = [ask EXCEPT !.pc = "done"]
    /\ UNCHANGED <<historyFile, now, main_vars>>

\* line 69: save_history(msg_history, reply), which appends to msg_history
AskSave ==
    /\ ask.pc = "save"
    /\ historyFile' = save_history(ask.msg_history, ask.response, now)
    /\ ask' = [ask EXCEPT !.pc = "done",
                          !.msg_history = Append(@, Turn("assistant", ask.response))]
    /\ UNCHANGED <<now, main_vars>>

\* The process has ended.
AskFinish ==
    /\ ask.pc = "done"
    /\ ask' = [AskIdle EXCEPT !.runs = ask.runs]
    /\ UNCHANGED <<historyFile, now, main_vars>>

\* Time passes.
Tick ==
    /\ \E t \in Times : t > now /\ now' = t
    /\ UNCHANGED <<historyFile, ask, main_vars>>

InitLegacy ==
    /\ configFile = NoConfigFile
    /\ sessionFiles = <<>>
    /\ generated = 0
    /\ clock = 0
    /\ inv = [p \in Procs |-> Idle]
    /\ LegacyInit

NextLegacy == AskRead \/ AskReply \/ AskFails \/ AskSave \/ AskFinish \/ Tick

SpecLegacy == InitLegacy /\ [][NextLegacy]_vars

\* ------------------------------------------------- vocabulary of the claims
\* The settings stored before the invocation began (nothing when the file
\* was missing or had invalid syntax).
StoredBefore(r) ==
    IF r.pre_config.exists /\ r.pre_config.syntax = "valid"
    THEN r.pre_config.value
    ELSE EmptyCfg

\* The record the file of session s held before the invocation began.
RecordBefore(r, s) ==
    IF s \in DOMAIN r.pre_sessions /\ r.pre_sessions[s].syntax = "valid"
    THEN r.pre_sessions[s].value
    ELSE NoneData

\* The record the file of session s holds now.
RecordNow(s) ==
    IF s \in DOMAIN sessionFiles /\ sessionFiles[s].syntax = "valid"
    THEN sessionFiles[s].value
    ELSE NoneData

StoredNow ==
    IF configFile.exists /\ configFile.syntax = "valid" THEN configFile.value ELSE EmptyCfg

Succeeded(r) == r.pc = "done" /\ r.outcome = "ok"
PastArguments(r) == r.pc # "idle" /\ r.args.prompt # None
\* The only exception an invocation may end with is the API call's.
OnlyApiErrors(r) == (r.pc = "done" /\ r.outcome = "exception") => Len(r.requests) = 1
SystemTurns(messages) == {i \in 1..Len(messages) : messages[i].role = "system"}

\* system?, user, assistant, user, assistant, ...
RoleOrder(messages) ==
    LET body == IF messages # <<>> /\ messages[1].role = "system"
                THEN Tail(messages) ELSE messages
    IN  /\ \A i \in 1..Len(body) :
             body[i].role = IF i % 2 = 1 THEN "user" ELSE "assistant"
        /\ Len(body) % 2 = 0

\* ------------------------------------------------------------ the claims
\* C1: a successful AI-mode invocation without --new-session on a current
\* session with non-empty persisted messages leaves the previous messages
\* unchanged and in order, followed by one user turn with this prompt and
\* one assistant turn with the reply; the length grows by 2 and there is
\* still exactly one system turn.
C1_LaterTurnAppendsOnePair ==
    \A p \in Procs :
      LET r == inv[p]
          current == StoredBefore(r).current_session
      IN  (/\ Succeeded(r) /\ r.args.ai /\ ~r.args.new_session
           /\ current # None
           /\ RecordBefore(r, TheValue(current)).messages # <<>>)
          => LET before == RecordBefore(r, TheValue(current)).messages
                 after == RecordNow(TheValue(current)).messages
             IN  /\ after = before \o <<Turn("user", TheValue(r.args.prompt)),
                                        Turn("assistant", TheValue(r.ai_response))>>
                 /\ Len(after) = Len(before) + 2
                 /\ Cardinality(SystemTurns(after)) = 1

C1_Witness ==
    \E p \in Procs :
      LET r == inv[p]
          current == StoredBefore(r).current_session
      IN  /\ Succeeded(r) /\ r.args.ai /\ ~r.args.new_session
          /\ current # None
          /\ Len(RecordBefore(r, TheValue(current)).messages) = 3
          /\ Len(RecordNow(TheValue(current)).messages) = 5

\* C2: when the resolved session has no persisted messages, the list sent
\* to the dispatcher in AI mode has exactly two entries: a system turn,
\* then a user turn with the invocation's prompt.
C2_FirstTurnSendsSystemThenUser ==
    \A p \in Procs :
      LET r == inv[p]
      IN  (/\ r.pc = "await" /\ r.args.ai
           /\ RecordNow(TheValue(r.session_id)).messages = <<>>)
          => LET sent == r.requests[Len(r.requests)].messages
             IN  /\ Len(sent) = 2
                 /\ sent[1].role = "system"
                 /\ sent[2] = Turn("user", TheValue(r.args.prompt))

C2_Witness ==
    \E p \in Procs :
      /\ inv[p].pc = "await" /\ inv[p].args.ai
      /\ RecordNow(TheValue(inv[p].session_id)).messages = <<>>
      /\ Len(inv[p].requests) = 1
      /\ inv[p].args.prompt = Some("p2")

\* C3: starting from an empty session store, after any sequence of
\* invocations every session file's messages have the role order system?,
\* user, assistant, ...: at most one system turn, only in first position,
\* strict alternation after it, ending with assistant when non-empty.
C3_RoleOrderInEveryFile ==
    \A s \in DOMAIN sessionFiles :
      LET messages == RecordNow(s).messages
      IN  /\ RoleOrder(messages)
          /\ SystemTurns(messages) \subseteq {1}

C3_Witness ==
    \E s \in DOMAIN sessionFiles : Len(RecordNow(s).messages) = 5

\* Session resolution (lines 225-245) is over: the invocation is at or past
\* the point where the list is assembled and the query dispatched.
Resolved(r) ==
    /\ r.args.ai
    /\ \/ r.pc \in {"dispatch", "await", "save"}
       \/ r.pc = "done" /\ r.outcome # "usage"
Used(r) == TheValue(r.session_id)
\* The session files this invocation has created so far.
Created(r) == DOMAIN sessionFiles \ DOMAIN r.pre_sessions
CurrentBefore(r) == StoredBefore(r).current_session
\* What the stored current id resolved to when the invocation began.
CurrentRecordBefore(r) ==
    IF CurrentBefore(r) = None THEN NoneData
    ELSE RecordBefore(r, TheValue(CurrentBefore(r)))

StaleBefore(r) ==
    /\ CurrentBefore(r) # None
    /\ \/ TheValue(CurrentBefore(r)) \notin DOMAIN r.pre_sessions
       \/ r.pre_sessions[TheValue(CurrentBefore(r))].syntax = "invalid"

C5_MissingOrCorruptSessionReplaced ==
    \A p \in Procs :
      LET r == inv[p]
          first == <<Turn("system", markdown_system_prompt),
                     Turn("user", TheValue(r.args.prompt))>>
      IN  (PastArguments(r) /\ r.args.ai /\ StaleBefore(r)) =>
            /\ OnlyApiErrors(r)
            /\ Resolved(r) =>
                 /\ Used(r) \in Created(r)
                 /\ StoredNow.current_session = r.session_id
            /\ Len(r.requests) > 0 => r.requests[1].messages = first
            /\ Succeeded(r) =>
                 RecordNow(Used(r)).messages =
                     Append(first, Turn("assistant", TheValue(r.ai_response)))

C5_Witness ==
    \E p \in Procs :
      LET r == inv[p]
      IN  /\ Succeeded(r) /\ r.args.ai /\ ~r.args.new_session
          /\ StaleBefore(r)
          /\ TheValue(CurrentBefore(r)) \in DOMAIN r.pre_sessions
          /\ Len(RecordNow(Used(r)).messages) = 3

\* C6: whenever the stored current_session id does not resolve to a session
\* record, a parseable file that is no session record included, an AI-mode
\* invocation creates a new session and goes on with it instead of ending
\* with an error.
C6_NonSessionFileReplaced ==
    \A p \in Procs :
      LET r == inv[p]
      IN  (/\ PastArguments(r) /\ r.args.ai /\ ~r.args.new_session
           /\ CurrentBefore(r) # None
           /\ CurrentRecordBefore(r).kind # "session")
          => /\ OnlyApiErrors(r)
             /\ Resolved(r) => Used(r) \in Created(r)

\* C7: an AI-mode invocation with --new-session uses a session whose id
\* differs from the session current before and from every session file
\* that existed; afterwards there is at least one more session file and
\* current_session names the new session.
C7_NewSessionIsDistinct ==
    \A p \in Procs :
      LET r == inv[p]
      IN  (PastArguments(r) /\ r.args.ai /\ r.args.new_session) =>
            /\ r.pc # "resolve" =>
                 /\ r.session_id # None
                 /\ r.session_id # CurrentBefore(r)
                 /\ Used(r) \notin DOMAIN r.pre_sessions
                 /\ Used(r) \in DOMAIN sessionFiles
            /\ r.pc = "done" =>
                 /\ Cardinality(DOMAIN sessionFiles) >= Cardinality(DOMAIN r.pre_sessions) + 1
                 /\ StoredNow.current_session = r.session_id

C7_Witness ==
    \E p \in Procs :
      LET r == inv[p]
      IN  /\ r.pc = "done" /\ r.args.ai /\ r.args.new_session /\ r.args.prompt # None
          /\ CurrentBefore(r) # None
          /\ CurrentRecordBefore(r).messages # <<>>
          /\ Cardinality(DOMAIN sessionFiles) = 2

\* C8: the model and the temperature of a request are resolved
\* independently: the flag when given (a temperature flag of 0.0 included),
\* else the stored config value, else the default (gpt-4o-mini, 0.7).
C8_FlagThenConfigThenDefault ==
    \A p \in Procs :
      LET r == inv[p]
          stored == StoredBefore(r)
      IN  \A i \in 1..Len(r.requests) :
            /\ r.requests[i].model =
                 IF r.args.model # None THEN TheValue(r.args.model)
                 ELSE IF stored.model # None THEN TheValue(stored.model)
                 ELSE "gpt-4o-mini"
            /\ r.requests[i].temperature =
                 IF r.args.temperature # None THEN TheValue(r.args.temperature)
                 ELSE IF stored.temperature # None THEN TheValue(stored.temperature)
                 ELSE 7

\* a request with --temperature 0.0 over a stored 0.9, and the stored model
C8_Witness ==
    \E p \in Procs :
      LET r == inv[p]
      IN  /\ Len(r.requests) = 1
          /\ r.args.temperature = Some(0) /\ StoredBefore(r).temperature = Some(9)
          /\ r.requests[1].temperature = 0
          /\ r.args.model = None /\ r.requests[1].model = "gpt-4o"

\* C9: after any invocation that gets past argument checking the config
\* file holds both model and temperature: the values stored before where
\* there were any, the defaults otherwise.
C9_DefaultsMergedAndPersisted ==
    \A p \in Procs :
      LET r == inv[p]
      IN  (r.pc = "done" /\ r.args.prompt # None) =>
            /\ configFile.exists /\ configFile.syntax = "valid"
            /\ configFile.value.model = Some(Get(StoredBefore(r).model, "gpt-4o-mini"))
            /\ configFile.value.temperature = Some(Get(StoredBefore(r).temperature, 7))

\* C10: load_config never raises: on a config file that is missing or has
\* invalid syntax each of its calls returns the empty mapping and leaves
\* the file as it was, and the lookups of model, temperature and
\* current_session on the result give the default or absent.
Unreadable(file) == ~file.exists \/ file.syntax = "invalid"

C10_LoadConfigFailsSoft ==
    \A p \in Procs :
      LET r == inv[p]
      IN  (PastArguments(r) /\ Unreadable(r.pre_config)) =>
            /\ OnlyApiErrors(r)
            /\ r.config = EmptyCfg
            /\ r.model = Get(r.args.model, "gpt-4o-mini")
            /\ r.temperature = Get(r.args.temperature, 7)
            \* up to the first save_config the file is still what it was
            /\ (~r.args.ai \/ r.pc \in {"resolve", "create", "set_current", "set_current_save"})
                 => configFile = r.pre_config
            \* get_current_session_id found no current session
            /\ (r.pc = "create" /\ ~r.args.new_session) => r.session_id = None
            \* set_current_session_id started from the empty mapping
            /\ r.pc = "set_current_save" => r.set_config = EmptyCfg

C10_Witness ==
    \E p \in Procs :
      LET r == inv[p]
      IN  /\ r.pc = "set_current_save" /\ ~r.args.new_session
          /\ r.pre_config = CorruptConfigFile
          /\ configFile = CorruptConfigFile
          /\ r.args.model = None /\ r.model = "gpt-4o-mini"

\* C11: an invocation with no --prompt exits with code 1 (usage) before
\* anything else: no request is sent, the config file is neither read nor
\* written, no session file is created or modified, whatever --ai and
\* --new-session are.
C11_NoPromptDoesNothing ==
    \A p \in Procs :
      LET r == inv[p]
      IN  (r.pc # "idle" /\ r.args.prompt = None) =>
            /\ r.pc = "done" /\ r.outcome = "usage" /\ r.exit_code = Some(1)
            /\ r.requests = <<>>
            /\ configFile = r.pre_config
            /\ sessionFiles = r.pre_sessions
            \* nothing was loaded or resolved from the config
            /\ r.config = EmptyCfg /\ r.model = "" /\ r.session_id = None

\* no prompt, with --ai --new-session, over stored settings and a session
C11_Witness ==
    \E p \in Procs :
      LET r == inv[p]
      IN  /\ r.pc = "done" /\ r.args.prompt = None
          /\ r.args.ai /\ r.args.new_session
          /\ StoredBefore(r).model # None
          /\ StoredBefore(r).current_session # None
          /\ DOMAIN sessionFiles # {}

\* C12: in both modes an absent or empty credential ends the process with
\* the diagnostic and code 1 without any request to the API; a present one
\* is the key of every request.
C12_CredentialChecked ==
    \A p \in Procs :
      LET r == inv[p]
      IN  PastArguments(r) =>
            /\ (r.api_key = {} \/ r.api_key = {""}) =>
                 /\ r.requests = <<>>
                 /\ r.pc \notin {"await", "save"}
                 /\ r.pc = "done" => (r.outcome = "no_credential" /\ r.exit_code = Some(1))
            /\ \A i \in 1..Len(r.requests) : r.api_key = {r.requests[i].api_key}

\* the empty credential, met in AI mode after the session was resolved
C12_Witness ==
    \E p \in Procs :
      LET r == inv[p]
      IN  /\ r.pc = "done" /\ r.outcome = "no_credential"
          /\ r.api_key = {""} /\ r.args.ai

\* C13: default mode is stateless: whatever the stored state and whether or
\* not --new-session is given, it creates and modifies no session file,
\* leaves current_session alone and sends exactly [system, user(prompt)].
C13_DefaultModeStateless ==
    \A p \in Procs :
      LET r == inv[p]
      IN  (PastArguments(r) /\ ~r.args.ai) =>
            /\ sessionFiles = r.pre_sessions
            /\ StoredNow.current_session = StoredBefore(r).current_session
            /\ configFile = r.pre_config
            /\ r.session_id = None
            /\ Len(r.requests) <= 1
            /\ \A i \in 1..Len(r.requests) :
                 LET sent == r.requests[i].messages
                 IN  /\ Len(sent) = 2
                     /\ sent[1].role = "system"
                     /\ sent[2] = Turn("user", TheValue(r.args.prompt))

\* default mode with --new-session over a current session that has history
C13_Witness ==
    \E p \in Procs :
      LET r == inv[p]
      IN  /\ Succeeded(r) /\ ~r.args.ai /\ r.args.new_session
          /\ CurrentRecordBefore(r).messages # <<>>
          /\ Len(r.requests) = 1

\* C14: in AI mode the system turn written on the first turn of a session
\* is the markdown prompt whatever --system-prompt is; in default mode it is
\* the --system-prompt text when non-empty, else the command prompt.
C14_SystemPromptByMode ==
    \A p \in Procs :
      LET r == inv[p]
      IN  /\ \A i \in 1..Len(r.requests) :
               LET sent == r.requests[i].messages
               IN  IF r.args.ai
                   THEN Len(sent) = 2 =>
                          sent[1] = Turn("system", "markdown prompt")
                   ELSE sent[1] = Turn("system",
                                       IF r.args.system_prompt # ""
                                       THEN r.args.system_prompt
                                       ELSE "single-command prompt")
          /\ (Succeeded(r) /\ r.args.ai /\ Len(RecordNow(Used(r)).messages) = 3) =>
               RecordNow(Used(r)).messages[1] = Turn("system", "markdown prompt")

\* a first AI turn saved although --system-prompt was given
C14_Witness ==
    \E p \in Procs :
      LET r == inv[p]
      IN  /\ Succeeded(r) /\ r.args.ai /\ r.args.system_prompt = "custom"
          /\ Len(RecordNow(Used(r)).messages) = 3

\* C15, as claimed: whenever --system-prompt text is given it is the content
\* of the request's system turn, in AI mode as in default mode.
C15_ExplicitSystemPromptAlwaysWins ==
    \A p \in Procs :
      LET r == inv[p]
      IN  \A i \in 1..Len(r.requests) :
            r.args.system_prompt # "" =>
              r.requests[i].messages[1] = Turn("system", r.args.system_prompt)

\* C15, amended: given --system-prompt text is the system turn's content in
\* default mode only; in AI mode the system turn is the markdown prompt and
\* the text is ignored; the command prompt is sent only in default mode
\* with no (or an empty) --system-prompt.
C15_ExplicitSystemPromptDefaultModeOnly ==
    \A p \in Procs :
      LET r == inv[p]
      IN  \A i \in 1..Len(r.requests) :
            LET system == r.requests[i].messages[1]
            IN  /\ system.role = "system"
                /\ (r.args.system_prompt # "" /\ ~r.args.ai) =>
                      system.content = r.args.system_prompt
                /\ r.args.ai =>
                      (system.content = "markdown prompt"
                       /\ system.content # r.args.system_prompt)
                /\ system.content = "single-command prompt" =>
                      (~r.args.ai /\ r.args.system_prompt = "")

\* a later AI turn sent with --system-prompt given
C15_Witness ==
    \E p \in Procs :
      LET r == inv[p]
      IN  /\ r.pc = "await" /\ r.args.ai /\ r.args.system_prompt = "custom"
          /\ Len(r.requests[1].messages) = 4

\* C16: for every finite stream the streaming dispatcher returns the
\* concatenation, in arrival order, of exactly the payloads that are
\* strings; None contributes nothing and raises nothing; the empty stream
\* gives the empty text; "Hello", " World", None gives "Hello World".
RECURSIVE Joined(_)
Joined(texts) == IF texts = <<>> THEN "" ELSE Head(texts) \o Joined(Tail(texts))

StringPayloads(chunks) ==
    LET strings == SelectSeq(chunks, LAMBDA c : c # {})
    IN  [i \in 1..Len(strings) |-> TheValue(strings[i])]

C16_StreamAccumulation ==
    \A p \in Procs :
      LET r == inv[p]
      IN  r.pc \in {"save", "done"} =>
            /\ r.outcome # "exception"
            /\ r.ai_response = {Joined(StringPayloads(r.chunks))}
            /\ r.chunks = <<>> => r.ai_response = {""}
            /\ r.chunks = <<{"Hello"}, {" World"}, {}>> => r.ai_response = {"Hello World"}
            /\ RecordNow(1).messages # <<>> =>
                 RecordNow(1).messages[3] =
                     Turn("assistant", Joined(StringPayloads(r.chunks)))

C16_Witness ==
    \E p \in Procs :
      /\ inv[p].pc = "done"
      /\ inv[p].chunks = <<{"Hello"}, {" World"}, {}>>
      /\ inv[p].ai_response = {"Hello World"}

\* Spec violates this: it reaches the state SpecStream starts in.
InitStreamNotReached == ~InitStream

\* C17: create_new_session returns an id whose file exists afterwards,
\* holding that id and an empty messages list; it changes no other session
\* file and does not change current_session.
CreatedBy(p) ==
    /\ inv[p].pc \in {"resolve", "create"}
    /\ inv'[p].pc = "set_current"

C17_CreateWritesEmptySession ==
    [][\A p \in Procs :
         CreatedBy(p) =>
           LET id == TheValue(inv'[p].session_id)
           IN  /\ id \notin DOMAIN sessionFiles
               /\ id \in DOMAIN sessionFiles'
               /\ sessionFiles'[id].syntax = "valid"
               /\ sessionFiles'[id].value.kind = "session"
               /\ sessionFiles'[id].value.id = id
               /\ sessionFiles'[id].value.messages = <<>>
               /\ \A other \in DOMAIN sessionFiles :
                    other \in DOMAIN sessionFiles'
                    /\ sessionFiles'[other] = sessionFiles[other]
               /\ DOMAIN sessionFiles' = DOMAIN sessionFiles \cup {id}
               /\ configFile' = configFile]_vars

\* just created, beside a session with history that is still current
C17_Witness ==
    \E p \in Procs :
      LET r == inv[p]
      IN  /\ r.pc = "set_current"
          /\ RecordNow(Used(r)).messages = <<>>
          /\ StoredNow.current_session # None
          /\ StoredNow.current_session # r.session_id
          /\ RecordNow(TheValue(StoredNow.current_session)).messages # <<>>

\* C19: no invocation deletes a session; the set of session identifiers
\* with a file only grows, and every file that existed before an invocation
\* still exists after it.
C19_SessionsNeverDeleted ==
    /\ [][DOMAIN sessionFiles \subseteq DOMAIN sessionFiles']_vars
    /\ [](\A p \in Procs :
            inv[p].pc = "done" => DOMAIN inv[p].pre_sessions \subseteq DOMAIN sessionFiles)

\* an invocation that created a session has ended, and the older one is kept
C19_Witness ==
    \E p \in Procs :
      /\ inv[p].pc = "done"
      /\ inv[p].pre_sessions # <<>>
      /\ DOMAIN inv[p].pre_sessions # DOMAIN sessionFiles
      /\ DOMAIN inv[p].pre_sessions \subseteq DOMAIN sessionFiles

\* C20: load_session after save_session of the same id returns the session
\* saved (id, created_at, messages in order); save_session overwrites only
\* the file of that id; load_session of an id with no file returns None.
SavedBy(p) ==
    /\ inv[p].pc = "save"
    /\ inv'[p].pc = "done"

Holds(messages, turn) == \E i \in 1..Len(messages) : messages[i] = turn

\* p saves over the file that holds q's turn, having loaded it before q saved
SavesOver(p, q) ==
    /\ q # p
    /\ SavedBy(p)
    /\ Succeeded(inv[q]) /\ inv[q].args.ai
    /\ inv[q].session_id = inv[p].session_id
    /\ Holds(RecordNow(Used(inv[p])).messages,
             Turn("user", TheValue(inv[q].args.prompt)))
    /\ ~Holds(inv[p].session_data.messages, Turn("user", TheValue(inv[q].args.prompt)))

C18_LaterSaveWins ==
    [][\A p, q \in Procs :
         SavesOver(p, q) =>
           LET id == TheValue(inv[p].session_id)
               after == sessionFiles'[id].value.messages
               lost == Turn("user", TheValue(inv[q].args.prompt))
           IN  /\ after = inv[p].session_data.messages
               /\ ~Holds(after, lost)
               /\ Holds(after, Turn("user", TheValue(inv[p].args.prompt)))
               /\ inv[q].ai_response # None
               /\ inv[q].exit_code = Some(0)
               /\ inv'[p].outcome = "ok"
               /\ inv'[p].exit_code = Some(0)]_vars

\* both invocations have ended well on one session, and the file holds the
\* turn of one of them only
C18_Witness ==
    \E p, q \in Procs :
      /\ p # q
      /\ Succeeded(inv[p]) /\ Succeeded(inv[q])
      /\ inv[p].args.ai /\ inv[q].args.ai
      /\ inv[p].session_id = inv[q].session_id
      /\ inv[q].ai_response # None
      /\ RecordNow(Used(inv[p])).messages = inv[p].session_data.messages
      /\ ~Holds(RecordNow(Used(inv[p])).messages,
                Turn("user", TheValue(inv[q].args.prompt)))

\* C21: get_current_session_id returns None while no current session has
\* been stored; after set_current_session_id(x) it returns x and the config
\* file holds current_session = x, also when the file was missing or had
\* invalid syntax before; load_config after save_config(c) returns c.
SetBy(p) ==
    /\ inv[p].pc = "set_current_save"
    /\ inv'[p].pc = "load"

\* the settings a config file of this model can hold
StorableConfigs ==
    [model : ConfigModels \cup {{DefaultModel}},
     temperature : ConfigTemperatures \cup {{DefaultTemperature}},
     current_session : {None} \cup {{id} : id \in 1..(MaxInvocations + 1)}]

Sent(r) == r.requests[1].messages

C22_PersistedIsSentPlusReply ==
    \A p \in Procs :
      LET r == inv[p]
      IN  (Succeeded(r) /\ r.args.ai) =>
            LET before == RecordBefore(r, Used(r)).messages
                after == RecordNow(Used(r)).messages
            IN  /\ Len(r.requests) = 1
                /\ after = Sent(r) \o <<Turn("assistant", TheValue(r.ai_response))>>
                /\ before # <<>> =>
                     Sent(r) = before \o <<Turn("user", TheValue(r.args.prompt))>>

\* a first turn and a later turn on the same session have both been saved
C22_Witness ==
    \E p \in Procs :
      LET r == inv[p]
      IN  /\ Succeeded(r) /\ r.args.ai
          /\ Len(RecordBefore(r, Used(r)).messages) = 3
          /\ Len(Sent(r)) = 4
          /\ Len(RecordNow(Used(r)).messages) = 5

\* C23: when the chat API call of an AI-mode invocation fails, the failure
\* propagates and nothing is saved: every session, the selected one
\* included, has the messages it had before the invocation, and at most one
\* request was made.
ApiFailed(r) == r.pc = "done" /\ r.outcome = "exception" /\ r.requests # <<>>

C23_ApiFailureSavesNothing ==
    \A p \in Procs :
      LET r == inv[p]
      IN  /\ Len(r.requests) <= 1
          /\ (ApiFailed(r) /\ r.args.ai) =>
               /\ r.exit_code = Some(1)
               /\ r.ai_response = None
               /\ \A s \in DOMAIN sessionFiles \cup DOMAIN r.pre_sessions :
                    RecordNow(s).messages = RecordBefore(r, s).messages
               /\ ~Holds(RecordNow(Used(r)).messages,
                         Turn("user", TheValue(r.args.prompt)))
                  \/ Holds(RecordBefore(r, Used(r)).messages,
                           Turn("user", TheValue(r.args.prompt)))

\* the call failed on a later turn of a session that has history
C23_Witness ==
    \E p \in Procs :
      LET r == inv[p]
      IN  /\ ApiFailed(r) /\ r.args.ai
          /\ Len(Sent(r)) = 4
          /\ Len(RecordNow(Used(r)).messages) = 3

\* C24: an AI-mode invocation that exits with code 1 because the credential
\* is absent leaves persistent state as it found it: no session file is
\* created or modified and current_session in the config file is unchanged.
NoCredentialExit(r) == r.pc = "done" /\ r.outcome = "no_credential"

C24_NoCredentialLeavesStateUntouched ==
    \A p \in Procs :
      LET r == inv[p]
      IN  (NoCredentialExit(r) /\ r.args.ai) =>
            /\ r.exit_code = Some(1)
            /\ DOMAIN sessionFiles = DOMAIN r.pre_sessions
            /\ sessionFiles = r.pre_sessions
            /\ StoredNow.current_session = StoredBefore(r).current_session

\* C25: starting from an empty session store and with no outside deletion,
\* after any sequence of invocations (successful, failed on the API call,
\* or ended for a missing credential) current_session is absent or names a
\* session whose file exists and parses as a session record.
C25_CurrentSessionNeverDangles ==
    LET current == StoredNow.current_session
    IN  current # None =>
          /\ TheValue(current) \in DOMAIN sessionFiles
          /\ sessionFiles[TheValue(current)].syntax = "valid"
          /\ sessionFiles[TheValue(current)].value.kind = "session"
          /\ sessionFiles[TheValue(current)].value.id = TheValue(current)

\* a second session has become current after an invocation that ended for
\* a missing credential
C25_Witness ==
    \E p \in Procs :
      /\ NoCredentialExit(inv[p]) /\ inv[p].args.ai
      /\ StoredNow.current_session = Some(2)
      /\ DOMAIN sessionFiles = {1, 2}

\* C26: an AI-mode invocation changes the messages of at most one session,
\* the one it resolved; with --new-session the file of the session that was
\* current is unchanged, and current_session names the new session, so a
\* later invocation does not continue the previous one.
C26_OnlyResolvedSessionChanges ==
    \A p \in Procs :
      LET r == inv[p]
      IN  Resolved(r) =>
            /\ \A s \in (DOMAIN sessionFiles \cup DOMAIN r.pre_sessions) \ {Used(r)} :
                 /\ RecordNow(s).messages = RecordBefore(r, s).messages
                 /\ s \in DOMAIN r.pre_sessions =>
                      s \in DOMAIN sessionFiles /\ sessionFiles[s] = r.pre_sessions[s]
            /\ r.args.new_session =>
                 /\ r.session_id # CurrentBefore(r)
                 /\ StoredNow.current_session = r.session_id
                 /\ get_current_session_id(configFile) = r.session_id
                 /\ (/\ CurrentBefore(r) # None
                     /\ TheValue(CurrentBefore(r)) \in DOMAIN r.pre_sessions)
                    => sessionFiles[TheValue(CurrentBefore(r))]
                         = r.pre_sessions[TheValue(CurrentBefore(r))]

\* --new-session has succeeded beside a current session that has history
C26_Witness ==
    \E p \in Procs :
      LET r == inv[p]
      IN  /\ Succeeded(r) /\ r.args.ai /\ r.args.new_session
          /\ CurrentBefore(r) # None
          /\ Len(RecordBefore(r, TheValue(CurrentBefore(r))).messages) = 3
          /\ Len(RecordNow(TheValue(CurrentBefore(r))).messages) = 3
          /\ Len(RecordNow(Used(r)).messages) = 3
          /\ StoredNow.current_session = r.session_id

\* C27: set_current_session_id changes only the current_session key: when
\* the config file is readable, model and temperature are stored with the
\* same values after the call as before, so creating or switching sessions
\* in AI mode does not alter what a later invocation resolves from config.
Readable(file) == file.exists /\ file.syntax = "valid"

C27_SetCurrentKeepsOtherKeys ==
    /\ [][\A p \in Procs :
            (SetBy(p) /\ Readable(configFile)) =>
              /\ Readable(configFile')
              /\ configFile'.value.model = configFile.value.model
              /\ configFile'.value.temperature = configFile.value.temperature
              /\ configFile'.value =
                   [configFile.value EXCEPT !.current_session = inv[p].session_id]]_vars
    /\ [](\A p \in Procs :
            LET r == inv[p]
            IN  (PastArguments(r) /\ Readable(r.pre_config)) =>
                  /\ StoredNow.model = StoredBefore(r).model
                  /\ StoredNow.temperature = StoredBefore(r).temperature
                  /\ Get(StoredNow.model, "gpt-4o-mini")
                       = Get(StoredBefore(r).model, "gpt-4o-mini")
                  /\ Get(StoredNow.temperature, 7)
                       = Get(StoredBefore(r).temperature, 7))

\* a session was made current in a config file that sets both keys
C27_Witness ==
    \E p \in Procs :
      LET r == inv[p]
      IN  /\ r.pc = "load" /\ r.args.ai
          /\ Readable(r.pre_config)
          /\ StoredBefore(r).model = Some("gpt-4o")
          /\ StoredBefore(r).temperature = Some(9)
          /\ StoredBefore(r).current_session # r.session_id
          /\ StoredNow.current_session = r.session_id
          /\ StoredNow.model = Some("gpt-4o")
          /\ StoredNow.temperature = Some(9)

\* C28: the temperature sent with every request to the chat API is a value
\* in [0, 2] (0..20 tenths), for every value of the --temperature flag and
\* every temperature stored in the config file.
C28_TemperatureInRange ==
    \A p \in Procs :
      \A i \in 1..Len(inv[p].requests) :
        /\ inv[p].requests[i].temperature >= 0
        /\ inv[p].requests[i].temperature <= 20

\* C29: under any interleaving of concurrent AI-mode invocations, with each
\* file read and each file write atomic, every session file keeps the role
\* order (one leading system turn, then user and assistant in alternation,
\* ending with assistant) and current_session names an existing session
\* file.
C29_RacesKeepHistoriesWellFormed ==
    /\ \A s \in DOMAIN sessionFiles :
         LET messages == RecordNow(s).messages
         IN  /\ sessionFiles[s].syntax = "valid"
             /\ sessionFiles[s].value.kind = "session"
             /\ RoleOrder(messages)
             /\ SystemTurns(messages) \subseteq {1}
             /\ messages # <<>> =>
                  /\ messages[1].role = "system"
                  /\ messages[Len(messages)].role = "assistant"
    /\ StoredNow.current_session # None =>
         /\ TheValue(StoredNow.current_session) \in DOMAIN sessionFiles
         /\ RecordNow(TheValue(StoredNow.current_session)).kind = "session"

\* two invocations without --new-session both found no current session,
\* each created one, and both have saved their turn
C29_Witness ==
    \E p, q \in Procs :
      /\ p # q
      /\ Succeeded(inv[p]) /\ Succeeded(inv[q])
      /\ ~inv[p].args.new_session /\ ~inv[q].args.new_session
      /\ inv[p].session_id # inv[q].session_id
      /\ StoredNow.current_session = inv[p].session_id
      /\ Len(RecordNow(Used(inv[p])).messages) = 3
      /\ Len(RecordNow(Used(inv[q])).messages) = 3

\* C30: in the legacy script, read_history returns the stored history
\* followed by the new user turn only when the history file exists and was
\* modified less than 120 seconds ago; a file that is 120 seconds old or
\* older is deleted, and then, as when there is no file, the history
\* restarts as the system prompt and the new user turn; save_history
\* appends one assistant turn to that list and overwrites the file with it.
AskReads == ask.pc = "idle" /\ ask'.pc = "await"
AskSaves == ask.pc = "save" /\ ask'.pc = "done"
Restarted(prompt) == <<legacy_system_prompt, Turn("user", prompt)>>

C30_LegacyHistoryExpires ==
    /\ [][AskReads =>
            LET age == now - historyFile.mtime
                returned == ask'.msg_history
                request == Turn("user", ask'.prompt)
            IN  /\ (historyFile.exists /\ age < 120) =>
                     /\ returned = historyFile.content \o <<request>>
                     /\ historyFile' = historyFile
                /\ returned = historyFile.content \o <<request>> =>
                     historyFile.exists /\ age < 120
                /\ (historyFile.exists /\ age >= 120) =>
                     /\ ~historyFile'.exists
                     /\ returned = Restarted(ask'.prompt)
                /\ ~historyFile.exists =>
                     /\ ~historyFile'.exists
                     /\ returned = Restarted(ask'.prompt)]_vars
    /\ [][AskSaves =>
            /\ historyFile'.exists
            /\ historyFile'.content
                 = ask.msg_history \o <<Turn("assistant", ask.response)>>
            /\ historyFile'.mtime = now]_vars

\* a history saved exactly 120 seconds before was deleted by this read, and
\* the history restarted
C30_Witness ==
    /\ ask.pc = "await"
    /\ ask.pre_file.exists
    /\ Len(ask.pre_file.content) = 3
    /\ ask.read_at - ask.pre_file.mtime = 120
    /\ ~historyFile.exists
    /\ ask.msg_history = Restarted(ask.prompt)

====
